---- MODULE Spec2Model ----
(***************************************************************************)
(* A model of the AnesthesiaTOC batch scripts:                             *)
(*   scripts/build_data.py     Crossref harvest -> dedupe -> sort ->       *)
(*                             PubMed enrichment -> cap -> data.json       *)
(*   scripts/build_metrics.py  SJR fetch (primary, fallback) ->            *)
(*                             journal_metrics.json                        *)
(*                                                                         *)
(* Representation of Python values:                                       *)
(*   - a date string "YYYY-MM-DD" is a sequence of one-character strings,  *)
(*     compared as Python compares str (by code point, a proper prefix     *)
(*     being smaller); the None of an Optional[str] date is <<>>;          *)
(*   - a Crossref date field {"date-parts": [[y, m, d]]} is the sequence   *)
(*     of its date-parts: <<>> when the field is missing or its list is    *)
(*     empty, <<p>> with p the first part list otherwise;                  *)
(*   - author names and the formatted author string are sequences of      *)
(*     one-character strings; a missing (or empty) name is <<>>;           *)
(*   - a title is a sequence of tokens: words (maximal runs of word        *)
(*     characters) and the separators between them;                       *)
(*   - DOIs, URLs, PMIDs and categories are strings; NONE is Python None.  *)
(***************************************************************************)
EXTENDS Integers, Sequences, FiniteSets, TLC

VARIABLES
    \* to_item applied to one Crossref record
    raw, item, ipc,
    \* join_authors applied to one author list
    authors, formatted, apc,
    \* choose_category applied to one list of publication types and one title
    pub_types, title, category, cpc,
    \* build_metrics.py main: the files, the program counter, the attempt the
    \* loop is at, the sources contacted so far, the writes of the metrics
    \* file so far (each with the source it came from), the exit status
    sources_json, metrics_file, have_old, mpc, attempt, last_err,
    contacted, metric_writes, mexit,
    \* history: the metrics file as the run found it, the [WARN] lines of
    \* failed attempts (their labels)
    metrics_file0, warned,
    \* build_data.py main: sources.json, the program counter, the index of
    \* the source the harvest loop is at, the lists and counters of main,
    \* data.json, the exit status
    sources, pc, si, unified, deduped, lookups, li, pmids_to_fetch,
    pmids_unique, bi, pmid_to_types, data_json, exit_status,
    \* history: the Crossref queries and the DOI->PMID requests issued so far
    queried, lookup_log,
    \* build_from_text applied to the rows of one CSV text
    csv_rows, csv_header, build_result, bpc

itemVars == <<raw, item, ipc>>
authVars == <<authors, formatted, apc>>
catVars == <<pub_types, title, category, cpc>>
metVars ==
    <<sources_json, metrics_file, have_old, mpc, attempt, last_err,
      contacted, metric_writes, mexit, metrics_file0, warned>>
mainVars ==
    <<sources, pc, si, unified, deduped, lookups, li, pmids_to_fetch,
      pmids_unique, bi, pmid_to_types, data_json, exit_status, queried,
      lookup_log>>
buildVars == <<csv_rows, csv_header, build_result, bpc>>
vars == <<itemVars, authVars, catVars, metVars, mainVars, buildVars>>

\* what the operations on one group of variables leave alone
notItemVars == <<authVars, catVars, metVars, mainVars, buildVars>>
notAuthVars == <<itemVars, catVars, metVars, mainVars, buildVars>>
notCatVars == <<itemVars, authVars, metVars, mainVars, buildVars>>
notMetVars == <<itemVars, authVars, catVars, mainVars, buildVars>>
notMainVars == <<itemVars, authVars, catVars, metVars, buildVars>>
notBuildVars == <<itemVars, authVars, catVars, metVars, mainVars>>

NONE == "None"
NoneStr == <<>>

Min2(a, b) == IF a <= b THEN a ELSE b
Max2(a, b) == IF a >= b THEN a ELSE b

(***************************************************************************)
(* Python str comparison on sequences of characters.                       *)
(***************************************************************************)
DigitChars == <<"0", "1", "2", "3", "4", "5", "6", "7", "8", "9">>

\* code point order of the characters a date string is made of
Ord(c) ==
    IF c = "-" THEN 45
    ELSE 48 + (CHOOSE k \in 0..9 : DigitChars[k + 1] = c)

RECURSIVE StrLess(_, _)
StrLess(a, b) ==
    IF a = <<>> THEN b # <<>>
    ELSE IF b = <<>> THEN FALSE
    ELSE IF Ord(Head(a)) # Ord(Head(b)) THEN Ord(Head(a)) < Ord(Head(b))
    ELSE StrLess(Tail(a), Tail(b))

StrLE(a, b) == a = b \/ StrLess(a, b)

\* Python min() / max() over a non-empty list of str: the first extreme element
RECURSIVE StrMax(_)
StrMax(s) ==
    IF Len(s) = 1 THEN s[1]
    ELSE LET m == StrMax(Tail(s)) IN IF StrLess(s[1], m) THEN m ELSE s[1]

RECURSIVE StrMin(_)
StrMin(s) ==
    IF Len(s) = 1 THEN s[1]
    ELSE LET m == StrMin(Tail(s)) IN IF StrLess(m, s[1]) THEN m ELSE s[1]

(***************************************************************************)
(* f"{int(n):0{w}d}" for n >= 0: the decimal digits of n, left-padded with *)
(* zeros to at least w characters.                                         *)
(***************************************************************************)
RECURSIVE Digits(_)
Digits(n) ==
    IF n < 10 THEN <<DigitChars[n + 1]>>
    ELSE Digits(n \div 10) \o <<DigitChars[(n % 10) + 1]>>

\* int() of a sequence of decimal digits
RECURSIVE NumberOf(_)
NumberOf(ds) ==
    IF ds = <<>> THEN 0
    ELSE 10 * NumberOf(SubSeq(ds, 1, Len(ds) - 1)) + (Ord(ds[Len(ds)]) - 48)

RECURSIVE ZeroPad(_, _)
ZeroPad(s, w) == IF Len(s) >= w THEN s ELSE ZeroPad(<<"0">> \o s, w)

\* "{}" in place of "{:02d}"
UnpaddedInt(n, w) == Digits(n)

FormatInt(n, w) == ZeroPad(Digits(n), w)

(***************************************************************************)
(* build_data.py: extract_ymd                                              *)
(***************************************************************************)
extract_ymd(rec, field) ==
    LET parts == rec[field] IN
    IF parts = <<>> THEN NoneStr
    ELSE LET p == parts[1] IN
         IF p = <<>> THEN NoneStr            \* parts[0][0] raises IndexError
         ELSE LET y == p[1]
                  m == IF Len(p) >= 2 THEN p[2] ELSE 1
                  d == IF Len(p) >= 3 THEN p[3] ELSE 1
              IN  FormatInt(y, 4) \o <<"-">> \o FormatInt(m, 2)
                      \o <<"-">> \o FormatInt(d, 2)

(***************************************************************************)
(* build_data.py: pick_date.  today is date.today().isoformat().           *)
(***************************************************************************)
DateFields ==
    <<"published-online", "published-print", "issued",
      "created", "indexed", "deposited">>

RECURSIVE Candidates(_, _)
Candidates(rec, fields) ==
    IF fields = <<>> THEN <<>>
    ELSE LET ymd == extract_ymd(rec, Head(fields)) IN
         (IF ymd # NoneStr THEN <<ymd>> ELSE <<>>)
             \o Candidates(rec, Tail(fields))

NonFuture(cands, today) == SelectSeq(cands, LAMBDA c : StrLE(c, today))

\* max(candidates) without the filter on today
LatestOfAll(cands, today) == StrMax(cands)

ChooseCandidate(cands, today) ==
    LET non_future == NonFuture(cands, today) IN
    IF non_future # <<>> THEN StrMax(non_future)
    ELSE StrMin(cands)

pick_date(rec, today) ==
    LET candidates == Candidates(rec, DateFields) IN
    IF candidates = <<>> THEN NoneStr
    ELSE ChooseCandidate(candidates, today)

(***************************************************************************)
(* build_data.py: join_authors                                             *)
(***************************************************************************)
EtAl == <<" ", "e", "t", " ", "a", "l", ".">>
CommaSpace == <<",", " ">>

\* the list a single author contributes to `names` (zero or one element)
AuthorName(a) ==
    IF a.family # <<>> /\ a.given # <<>>
        THEN <<a.family \o <<" ", a.given[1], ".">>>>
    ELSE IF a.family # <<>> THEN <<a.family>>
    ELSE <<>>

RECURSIVE AuthorNames(_)
AuthorNames(as) ==
    IF as = <<>> THEN <<>> ELSE AuthorName(Head(as)) \o AuthorNames(Tail(as))

\* sep.join(names)
RECURSIVE Join(_, _)
Join(names, sep) ==
    IF names = <<>> THEN <<>>
    ELSE IF Len(names) = 1 THEN names[1]
    ELSE names[1] \o sep \o Join(Tail(names), sep)

\* len(names) in place of len(authors)
EtAlWhenNamesTruncated(authorList, names) ==
    IF Len(names) > 10 THEN Join(names, CommaSpace) \o EtAl
    ELSE Join(names, CommaSpace)

EtAlWhenTruncated(authorList, names) ==
    IF Len(authorList) > 10 THEN Join(names, CommaSpace) \o EtAl
    ELSE Join(names, CommaSpace)

FormatNames(authorList, names) ==
    IF names = <<>> THEN <<>>
    ELSE EtAlWhenTruncated(authorList, names)

join_authors(rec) ==
    LET authorList == rec.author
        names == AuthorNames(SubSeq(authorList, 1, Min2(10, Len(authorList))))
    IN  FormatNames(authorList, names)

(***************************************************************************)
(* build_data.py: clean_title.  re.sub(r"\s+", " ", t[0]).strip() on a     *)
(* token sequence: runs of whitespace tokens collapse to one " ", leading  *)
(* and trailing whitespace is removed.                                     *)
(***************************************************************************)
IsSpace(tok) == tok \in {" ", "\t", "\n"}

RECURSIVE CollapseSpaces(_)
CollapseSpaces(t) ==
    IF t = <<>> THEN <<>>
    ELSE IF IsSpace(Head(t))
        THEN IF Len(t) >= 2 /\ IsSpace(t[2]) THEN CollapseSpaces(Tail(t))
             ELSE <<" ">> \o CollapseSpaces(Tail(t))
    ELSE <<Head(t)>> \o CollapseSpaces(Tail(t))

RECURSIVE LStrip(_)
LStrip(t) == IF t # <<>> /\ IsSpace(Head(t)) THEN LStrip(Tail(t)) ELSE t

RECURSIVE RStrip(_)
RStrip(t) ==
    IF t # <<>> /\ IsSpace(t[Len(t)]) THEN RStrip(SubSeq(t, 1, Len(t) - 1))
    ELSE t

\* rec.title is the list of title variants; [] when the field is missing
clean_title(rec) ==
    IF rec.title = <<>> THEN <<>>
    ELSE RStrip(LStrip(CollapseSpaces(rec.title[1])))

(***************************************************************************)
(* str.lower() on the strings of the model: the title words and DOIs that  *)
(* hold an upper-case letter, with their lower-case forms.                 *)
(***************************************************************************)
LowerCased ==
    [ A |-> "a", X |-> "x", Randomized |-> "randomized",
      Controlled |-> "controlled", Trial |-> "trial", Trials |-> "trials",
      Review |-> "review", Meta |-> "meta", Analysis |-> "analysis",
      Cohort |-> "cohort", Guidelines |-> "guidelines", Reply |-> "reply",
      Letter |-> "letter", Registry |-> "registry",
      Systematic |-> "systematic", Propofol |-> "propofol" ]
        @@ [ Year |-> "year", Issn |-> "issn", SJR |-> "sjr",
             Title |-> "title", Rank |-> "rank", Journal |-> "journal" ]
        @@ ("10.1/A" :> "10.1/a")

SameCase(s) == s

lower(s) == IF s \in DOMAIN LowerCased THEN LowerCased[s] ELSE s

(***************************************************************************)
(* build_data.py: classification                                           *)
(***************************************************************************)
CAT_META == "Meta-analysis"
CAT_RCT == "Randomized Control Trials"
CAT_OBS == "Observational Studies"
CAT_GUIDE == "Guideline / Consensus"
CAT_REVIEW == "Review (Narrative / Systematic)"
CAT_EDITORIAL == "Editorial / Letter / Commentary"
CAT_UNK == "Unclassified"

DASHBOARD_CATEGORIES ==
    <<CAT_META, CAT_RCT, CAT_OBS, CAT_GUIDE, CAT_REVIEW, CAT_EDITORIAL>>

PUBMED_TYPE_TO_CATEGORY ==
    ("Meta-Analysis" :> CAT_META)
    @@ ("Randomized Controlled Trial" :> CAT_RCT)
    @@ ("Clinical Trial" :> CAT_RCT)
    @@ ("Clinical Trial, Phase I" :> CAT_RCT)
    @@ ("Clinical Trial, Phase II" :> CAT_RCT)
    @@ ("Clinical Trial, Phase III" :> CAT_RCT)
    @@ ("Clinical Trial, Phase IV" :> CAT_RCT)
    @@ ("Controlled Clinical Trial" :> CAT_RCT)
    @@ ("Observational Study" :> CAT_OBS)
    @@ ("Cohort Studies" :> CAT_OBS)
    @@ ("Case-Control Studies" :> CAT_OBS)
    @@ ("Cross-Sectional Studies" :> CAT_OBS)
    @@ ("Practice Guideline" :> CAT_GUIDE)
    @@ ("Guideline" :> CAT_GUIDE)
    @@ ("Consensus Development Conference" :> CAT_GUIDE)
    @@ ("Consensus Development Conference, NIH" :> CAT_GUIDE)
    @@ ("Systematic Review" :> CAT_REVIEW)
    @@ ("Review" :> CAT_REVIEW)
    @@ ("Editorial" :> CAT_EDITORIAL)
    @@ ("Comment" :> CAT_EDITORIAL)
    @@ ("Letter" :> CAT_EDITORIAL)

\* PUBMED_TYPE_TO_CATEGORY.get(pt)
TypeCategory(pt) ==
    IF pt \in DOMAIN PUBMED_TYPE_TO_CATEGORY THEN PUBMED_TYPE_TO_CATEGORY[pt]
    ELSE NONE

(***************************************************************************)
(* TITLE_RULES.  A regular expression is the set of its alternatives; an   *)
(* alternative is a sequence of sets of tokens, one set for each token it  *)
(* spans ([- ] is the set {"-", " "}).  \b holds at every token border.    *)
(***************************************************************************)
Word(w) == <<{w}>>
Two(w1, w2) == <<{w1}, {" "}, {w2}>>
Hyph(w1, w2) == <<{w1}, {"-", " "}, {w2}>>

TITLE_RULES ==
    << [cat |-> CAT_META,
        pattern |-> { Hyph("meta", "analysis"),
                      <<{"network"}, {" "}, {"meta"}, {"-", " "}, {"analysis"}>>,
                      Word("metaanalysis") }],
       [cat |-> CAT_RCT,
        pattern |-> { <<{"randomised", "randomized"}>>,
                      <<{"randomisation", "randomization"}>>,
                      Two("controlled", "trial"), Word("rct"), Word("trial") }],
       [cat |-> CAT_GUIDE,
        pattern |-> { Two("practice", "guideline"),
                      <<{"guideline", "guidelines"}>>, Word("consensus"),
                      Two("position", "statement"), Word("recommendations") }],
       [cat |-> CAT_REVIEW,
        pattern |-> { Two("systematic", "review"), Word("review"),
                      Two("scoping", "review"), Two("rapid", "review") }],
       [cat |-> CAT_EDITORIAL,
        pattern |-> { Word("editorial"), Word("commentary"),
                      Word("correspondence"), Word("letter"), Word("comment"),
                      Word("reply") }],
       [cat |-> CAT_OBS,
        pattern |-> { Word("observational"), Word("cohort"),
                      Hyph("case", "control"), Hyph("cross", "sectional"),
                      Word("registry") }] >>

\* re.search(pattern, t)
Search(pattern, t) ==
    \E alt \in pattern :
        \E i \in 1..(Len(t) - Len(alt) + 1) :
            \A k \in 1..Len(alt) : t[i + k - 1] \in alt[k]

\* mapped[0]: the category of the first mapped type
FirstMapped(mapped) == mapped[1]

ByPrecedence(mapped) ==
    LET precedence ==
            <<CAT_META, CAT_RCT, CAT_GUIDE, CAT_REVIEW, CAT_EDITORIAL, CAT_OBS>>
        hits == { i \in 1..Len(precedence) :
                    \E j \in 1..Len(mapped) : mapped[j] = precedence[i] }
    IN  IF hits # {}
        THEN precedence[CHOOSE i \in hits : \A j \in hits : i <= j]
        ELSE mapped[1]

category_from_pubmed_types(types) ==
    IF types = <<>> THEN NONE
    ELSE LET cats == [i \in 1..Len(types) |-> TypeCategory(types[i])]
             mapped == SelectSeq(cats, LAMBDA c : c # NONE)
         IN  IF mapped = <<>> THEN NONE ELSE ByPrecedence(mapped)

category_from_title(ttl) ==
    IF ttl = <<>> THEN NONE
    ELSE LET t == [i \in 1..Len(ttl) |-> lower(ttl[i])]
             hits == { i \in 1..Len(TITLE_RULES) :
                         Search(TITLE_RULES[i].pattern, t) }
         IN  IF hits # {}
             THEN TITLE_RULES[CHOOSE i \in hits : \A j \in hits : i <= j].cat
             ELSE NONE

choose_category(types, ttl) ==
    LET cat == category_from_pubmed_types(types) IN
    IF cat # NONE THEN cat
    ELSE LET cat2 == category_from_title(ttl) IN
         IF cat2 # NONE THEN cat2 ELSE CAT_UNK

(***************************************************************************)
(* build_metrics.py.  An ISSN, a year cell and an SJR cell are sequences   *)
(* of characters.  A fetched text is a record: html (looks_like_html       *)
(* holds of it), semis and commas (the counts of ";" and "," in its first  *)
(* 4000 characters), sep (the delimiter its lines are written with),       *)
(* header (its column names) and rows (its data rows, each with the cells  *)
(* of the year, ISSN, SJR and title columns; the ISSN cell is the list of  *)
(* its comma-separated parts).  An SJR value is held in thousandths.       *)
(***************************************************************************)
IsDigit(c) == \E k \in 1..Len(DigitChars) : DigitChars[k] = c

AllDigits(cs) == \A i \in 1..Len(cs) : IsDigit(cs[i])

\* str.upper() on the characters of an ISSN
UpperChar(c) == IF c = "x" THEN "X" ELSE c

\* str.strip() on a sequence of characters
Strip(cs) == RStrip(LStrip(cs))

IssnAsGiven(rawIssn) == Strip(rawIssn)

normalize_issn(rawIssn) ==
    LET up == [i \in 1..Len(Strip(rawIssn)) |-> UpperChar(Strip(rawIssn)[i])]
        t == SelectSeq(up, LAMBDA c : c # " ")
        check(c) == IsDigit(c) \/ c = "X"
    IN  IF /\ Len(t) = 9 /\ t[5] = "-" /\ AllDigits(SubSeq(t, 1, 4))
           /\ AllDigits(SubSeq(t, 6, 8)) /\ check(t[9])
        THEN t
        ELSE IF Len(t) = 8 /\ AllDigits(SubSeq(t, 1, 7)) /\ check(t[8])
        THEN SubSeq(t, 1, 4) \o <<"-">> \o SubSeq(t, 5, 8)
        ELSE t

looks_like_html(text) == text.html

sniff_delimiter(text) == IF text.semis > text.commas THEN ";" ELSE ","

\* csv.DictReader(..., delimiter=delim).fieldnames: a header line read with
\* another delimiter than its own is not split into its columns
FieldNames(text, delim) ==
    IF delim = text.sep THEN text.header ELSE <<"(unsplit header line)">>

\* detect_columns: the columns found, or <<>> where it raises ValueError
detect_columns(fieldnames) ==
    IF fieldnames = <<>> THEN <<>>
    ELSE LET norm == { lower(fieldnames[i]) : i \in 1..Len(fieldnames) }
             year_col == "year" \in norm
             issn_col == "issn" \in norm
             sjr_col == "sjr" \in norm
             title_col == {"title", "journal", "source title", "sourcetitle"}
                             \cap norm # {}
         IN  IF year_col /\ issn_col /\ sjr_col /\ title_col
             THEN <<"year", "issn", "sjr", "title">> ELSE <<>>

NoNumber == -1

\* float("nan"): a float that is neither less than, greater than nor equal to
\* any float
NaN == -2

\* the spellings of nan that float() accepts
IsNanCell(t) ==
    /\ Len(t) = 3
    /\ t[1] \in {"n", "N"} /\ t[2] \in {"a", "A"} /\ t[3] \in {"n", "N"}

\* < on floats
FloatLess(a, b) == a # NaN /\ b # NaN /\ a < b

\* int(cell.strip()): NoNumber where it raises
ParseYearCell(cell) ==
    LET t == Strip(cell) IN
    IF t # <<>> /\ AllDigits(t) THEN NumberOf(t) ELSE NoNumber

\* parse_float, in thousandths: NoNumber for None.  Of what float() accepts,
\* unsigned decimal notation and nan are followed.
parse_float(cell) ==
    LET t == Strip(cell)
        u == [i \in 1..Len(t) |-> IF t[i] = "," THEN "." ELSE t[i]]
        dots == { i \in 1..Len(u) : u[i] = "." }
    IN  IF t = <<>> THEN NoNumber
        ELSE IF IsNanCell(u) THEN NaN
        ELSE IF dots = {}
            THEN IF AllDigits(u) THEN 1000 * NumberOf(u) ELSE NoNumber
        ELSE IF Cardinality(dots) = 1
            THEN LET k == CHOOSE i \in dots : TRUE
                     ip == SubSeq(u, 1, k - 1)
                     fp == SubSeq(u, k + 1, Len(u))
                     f3 == SubSeq(fp \o <<"0", "0", "0">>, 1, 3)
                 IN  IF AllDigits(ip) /\ AllDigits(fp) /\ Len(ip) + Len(fp) > 0
                         /\ Len(fp) <= 3
                     THEN 1000 * NumberOf(ip) + NumberOf(f3)
                     ELSE NoNumber
        ELSE NoNumber

\* load_sources: the wanted set
WantedIssns(srcs) ==
    { normalize_issn(srcs[i].issn) : i \in 1..Len(srcs) } \ {<<>>}

RECURSIVE LatestYear(_)
LatestYear(rows) ==
    IF rows = <<>> THEN NoNumber
    ELSE Max2(ParseYearCell(Head(rows).year), LatestYear(Tail(rows)))

\* the last SJR value seen, in place of the greatest
KeepLast(by_issn, issn, sjr_val) == TRUE

KeepMax(by_issn, issn, sjr_val) ==
    issn \notin DOMAIN by_issn \/ FloatLess(by_issn[issn].sjr, sjr_val)

RECURSIVE RecordIssns(_, _, _, _, _)
RecordIssns(by_issn, issns, sjr_val, title_source, wanted) ==
    IF issns = <<>> THEN by_issn
    ELSE LET issn == Head(issns)
             next == IF issn \in wanted /\ KeepMax(by_issn, issn, sjr_val)
                     THEN [x \in DOMAIN by_issn \cup {issn} |->
                             IF x = issn
                             THEN [sjr |-> sjr_val, title_source |-> title_source]
                             ELSE by_issn[x]]
                     ELSE by_issn
         IN  RecordIssns(next, Tail(issns), sjr_val, title_source, wanted)

AnyYear(y, latest_year) == y # NoNumber

OfLatestYear(y, latest_year) == y # NoNumber /\ y = latest_year

RECURSIVE RecordRows(_, _, _, _)
RecordRows(by_issn, rows, latest_year, wanted) ==
    IF rows = <<>> THEN by_issn
    ELSE LET r == Head(rows)
             y == ParseYearCell(r.year)
             issns == [i \in 1..Len(r.issn) |-> normalize_issn(r.issn[i])]
             sjr_val == parse_float(r.sjr)
             next == IF /\ OfLatestYear(y, latest_year)
                        /\ r.issn # <<>>
                        /\ sjr_val # NoNumber
                     THEN RecordIssns(by_issn, issns, sjr_val, r.title, wanted)
                     ELSE by_issn
         IN  RecordRows(next, Tail(rows), latest_year, wanted)

EmptyMap == [x \in {} |-> 0]

\* [ok, err] where build_from_text raises, [ok, year, by_issn] where it returns
build_from_text(text, wanted) ==
    IF looks_like_html(text)
    THEN [ok |-> FALSE, err |-> "Received HTML instead of CSV (likely blocked)"]
    ELSE IF detect_columns(FieldNames(text, sniff_delimiter(text))) = <<>>
    THEN [ok |-> FALSE, err |-> "Missing required columns"]
    ELSE IF LatestYear(text.rows) = NoNumber
    THEN [ok |-> FALSE, err |-> "Could not detect latest year"]
    ELSE [ok |-> TRUE, year |-> LatestYear(text.rows),
          by_issn |-> RecordRows(EmptyMap, text.rows, LatestYear(text.rows), wanted)]

\* the `out` dictionary of main (generated_at and the fixed notes left out)
MetricsOut(built, srcs) ==
    [sjr_year |-> built.year,
     coverage |-> [matched |-> Cardinality(DOMAIN built.by_issn),
                   total_sources |-> Len(srcs)],
     by_issn |-> built.by_issn]

\* the fallback tried before the primary
FallbackFirst == <<"Fallback GitHub CSV", "SCImago export">>

SourceLabels == <<"SCImago export", "Fallback GitHub CSV">>

(***************************************************************************)
(* build_data.py: to_item                                                  *)
(***************************************************************************)
\* >= in place of >
AopNotEarlier(online, later) == StrLE(online, StrMin(later))

AopStrictlyLater(online, later) == StrLess(online, StrMin(later))

\* the issued date standing in for a missing online date
AopFlagIssuedAsOnline(online, pprint, issued) ==
    LET first == IF online # NoneStr THEN online ELSE issued IN
    IF first # NoneStr
    THEN LET later == SelectSeq(<<pprint>>, LAMBDA d : d # NoneStr) IN
         IF later = <<>> THEN TRUE
         ELSE AopStrictlyLater(first, later)
    ELSE FALSE

AopFlag(online, pprint, issued) ==
    IF online # NoneStr
    THEN LET later == SelectSeq(<<pprint, issued>>, LAMBDA d : d # NoneStr) IN
         IF later = <<>> THEN TRUE
         ELSE AopStrictlyLater(online, later)
    ELSE FALSE

to_item(journal, short, rec, today) ==
    LET doi == rec.DOI
        url == IF rec.URL # "" THEN rec.URL
               ELSE IF doi # "" THEN "https://doi.org/" \o doi ELSE ""
        online == extract_ymd(rec, "published-online")
        pprint == extract_ymd(rec, "published-print")
        issued == extract_ymd(rec, "issued")
    IN  [ journal |-> journal,
          journal_short |-> short,
          title |-> clean_title(rec),
          authors |-> join_authors(rec),
          published |-> pick_date(rec, today),
          doi |-> doi,
          url |-> url,
          aop |-> AopFlag(online, pprint, issued),
          source |-> "crossref",
          pmid |-> NONE,
          pubmed_url |-> NONE,
          pubmed_publication_types |-> <<>>,
          category |-> NONE ]

(***************************************************************************)
(* build_data.py: main.  The configuration (environment variables).        *)
(***************************************************************************)
CROSSREF_ROWS_PER_JOURNAL == 2
GLOBAL_MAX_ITEMS == 3
PMID_LOOKUP_BUDGET == 2
EFETCH_BATCH_SIZE == 2

\* crossref_query_by_issn: rows = max(1, min(int(rows), 1000))
RowsAsked(rows) == Max2(1, Min2(rows, 1000))

\* lines 397-399: the ISSN of a source (a string, or the first of a list)
FirstIssn(s) ==
    IF s.issn.list THEN (IF s.issn.val # <<>> THEN s.issn.val[1] ELSE "")
    ELSE s.issn.val

\* s.get("short", name)
ShortOf(s) == IF "short" \in DOMAIN s THEN s.short ELSE s.name

\* lines 410-413: the items one response adds to `unified`
RECURSIVE ItemsOf(_, _, _, _)
ItemsOf(name, short, works, today) ==
    IF works = <<>> THEN <<>>
    ELSE LET it == to_item(name, short, Head(works), today) IN
         (IF it.title # <<>> THEN <<it>> ELSE <<>>)
             \o ItemsOf(name, short, Tail(works), today)

\* the DOI as it is, not lower-cased
KeyOfRawDoi(it) == IF it.doi # "" THEN it.doi ELSE it.url

\* line 419
DedupeKey(it) == IF it.doi # "" THEN lower(it.doi) ELSE it.url

\* lines 416-425
RECURSIVE Dedupe(_, _)
Dedupe(items, seen) ==
    IF items = <<>> THEN <<>>
    ELSE LET it == Head(items)
             key == DedupeKey(it)
         IN  IF key = "" \/ key \in seen THEN Dedupe(Tail(items), seen)
             ELSE <<it>> \o Dedupe(Tail(items), seen \cup {key})

\* the comparison of a sort without reverse=True
SortKeyGreater(x, y) ==
    LET bx == x.published # NoneStr
        by == y.published # NoneStr
    IN  \/ bx /\ ~by
        \/ bx = by /\ StrLess(y.published, x.published)

\* the order of the sort keys (published is not None, published or "")
SortKeyLess(x, y) ==
    LET bx == x.published # NoneStr
        by == y.published # NoneStr
    IN  \/ ~bx /\ by
        \/ bx = by /\ StrLess(x.published, y.published)

\* list.sort(key=..., reverse=True): descending and stable.  Before(items, i)
\* are the positions of the items that come to stand before items[i].
Before(items, i) ==
    { j \in 1..Len(items) :
        \/ SortKeyLess(items[i], items[j])
        \/ ~SortKeyLess(items[j], items[i]) /\ j < i }

SortDesc(items) ==
    [p \in 1..Len(items) |->
        items[CHOOSE i \in 1..Len(items) : Cardinality(Before(items, i)) = p - 1]]

\* lines 460-465
RECURSIVE Unique(_, _)
Unique(pmids, seen) ==
    IF pmids = <<>> THEN <<>>
    ELSE IF Head(pmids) \in seen THEN Unique(Tail(pmids), seen)
    ELSE <<Head(pmids)>> \o Unique(Tail(pmids), seen \cup {Head(pmids)})

\* line 467
BatchSize == Max2(1, Min2(EFETCH_BATCH_SIZE, 200))

\* lines 479-490: one item of the final loop
AssignItem(it, types_of) ==
    LET types == IF it.pmid # NONE /\ it.pmid \in DOMAIN types_of
                 THEN types_of[it.pmid] ELSE <<>>
        it2 == [it EXCEPT !.pubmed_publication_types = types,
                          !.category = choose_category(types, it.title)]
    IN  IF it.pmid = NONE
        THEN [k \in DOMAIN it2 \ {"pmid", "pubmed_url"} |-> it2[k]]
        ELSE it2

\* deduped[:n]
SliceTo(items, n) ==
    IF n >= 0 THEN SubSeq(items, 1, Min2(n, Len(items)))
    ELSE SubSeq(items, 1, Max2(0, Len(items) + n))

\* lines 493-494
Capped(items) ==
    IF Len(items) > GLOBAL_MAX_ITEMS THEN SliceTo(items, GLOBAL_MAX_ITEMS)
    ELSE items

\* lines 496-505 (generated_at left out)
DataOut(items) ==
    [items |-> items,
     meta |-> [rows_per_journal |-> CROSSREF_ROWS_PER_JOURNAL,
               global_max_items |-> GLOBAL_MAX_ITEMS,
               pmid_lookup_budget |-> PMID_LOOKUP_BUDGET,
               categories |-> DASHBOARD_CATEGORIES]]

(***************************************************************************)
(* Inputs of the record-level operations.                                  *)
(***************************************************************************)
\* date.today() of the run
TodayParts == <<2024, 6, 15>>
Today == extract_ymd([d |-> <<TodayParts>>], "d")

RawWork(doi, url, ttl, author, on, pr, is, cr, ix, dp) ==
    [DOI |-> doi, URL |-> url, title |-> ttl, author |-> author]
        @@ ("published-online" :> on @@ "published-print" :> pr
            @@ "issued" :> is @@ "created" :> cr @@ "indexed" :> ix
            @@ "deposited" :> dp)

Absent == <<>>

\* values of published-online, published-print and issued
MainDateValues ==
    { Absent, <<<<>>>>, <<<<2023>>>>, <<<<2023, 12, 1>>>>, <<<<2024, 1, 10>>>>,
      <<<<2024, 3, 1>>>>, <<TodayParts>>, <<<<2024, 10>>>>, <<<<2025, 2, 3>>>> }

\* values of created, indexed and deposited
AuxDateValues == { Absent, <<<<2024, 5, 20>>>>, <<<<2024, 6, 16>>>> }

Li == <<"L", "i">>
Wu == <<"W", "u">>
Ann == <<"A", "n", "n">>
Bo == <<"B", "o">>

AuthorPool ==
    { [family |-> Li, given |-> Ann], [family |-> Wu, given |-> <<>>],
      [family |-> <<>>, given |-> Bo], [family |-> <<>>, given |-> <<>>] }

SampleTitle == <<"Propofol", " ", "kinetics">>

NoItem == <<>>

(***************************************************************************)
(* to_item on one record: every combination of the six date fields.        *)
(***************************************************************************)
InitItem ==
    /\ raw \in { RawWork("10.1/a", "", <<SampleTitle>>,
                          <<[family |-> Li, given |-> Ann]>>,
                          on, pr, is, cr, ix, dp) :
                    on \in MainDateValues, pr \in MainDateValues,
                    is \in MainDateValues, cr \in AuxDateValues,
                    ix \in AuxDateValues, dp \in AuxDateValues }
    /\ item = NoItem
    /\ ipc = "input"
    /\ authors = <<>> /\ formatted = <<>> /\ apc = "idle"
    /\ pub_types = <<>> /\ title = <<>> /\ category = NONE /\ cpc = "idle"
    /\ sources_json = <<>> /\ metrics_file = <<>> /\ have_old = FALSE
    /\ mpc = "idle" /\ attempt = 0 /\ last_err = NONE
    /\ contacted = <<>> /\ metric_writes = <<>> /\ mexit = NONE
    /\ metrics_file0 = <<>> /\ warned = <<>>
    /\ sources = <<>> /\ pc = "idle" /\ si = 0 /\ unified = <<>>
    /\ deduped = <<>> /\ lookups = 0 /\ li = 0 /\ pmids_to_fetch = <<>>
    /\ pmids_unique = <<>> /\ bi = 0 /\ pmid_to_types = <<>>
    /\ data_json = <<>> /\ exit_status = NONE /\ queried = <<>>
    /\ lookup_log = <<>>
    /\ csv_rows = <<>> /\ csv_header = <<>>
    /\ build_result = <<>> /\ bpc = "idle"

ToItem ==
    /\ ipc = "input"
    /\ item' = to_item("Anesthesiology", "ANES", raw, Today)
    /\ ipc' = "done"
    /\ UNCHANGED <<raw, notItemVars>>

(***************************************************************************)
(* join_authors on one author list.  The lists are those of at most        *)
(* MaxAuthors entries that differ from their first entry in at most        *)
(* MaxDeviations places.                                                   *)
(***************************************************************************)
MaxAuthors == 11
MaxDeviations == 2

Deviations(as) == Cardinality({ i \in 1..Len(as) : as[i] # as[1] })

InitAuthors ==
    /\ authors = <<>> /\ formatted = <<>> /\ apc = "input"
    /\ raw = <<>> /\ item = NoItem /\ ipc = "idle"
    /\ pub_types = <<>> /\ title = <<>> /\ category = NONE /\ cpc = "idle"
    /\ sources_json = <<>> /\ metrics_file = <<>> /\ have_old = FALSE
    /\ mpc = "idle" /\ attempt = 0 /\ last_err = NONE
    /\ contacted = <<>> /\ metric_writes = <<>> /\ mexit = NONE
    /\ metrics_file0 = <<>> /\ warned = <<>>
    /\ sources = <<>> /\ pc = "idle" /\ si = 0 /\ unified = <<>>
    /\ deduped = <<>> /\ lookups = 0 /\ li = 0 /\ pmids_to_fetch = <<>>
    /\ pmids_unique = <<>> /\ bi = 0 /\ pmid_to_types = <<>>
    /\ data_json = <<>> /\ exit_status = NONE /\ queried = <<>>
    /\ lookup_log = <<>>
    /\ csv_rows = <<>> /\ csv_header = <<>>
    /\ build_result = <<>> /\ bpc = "idle"

AppendAuthor ==
    /\ apc = "input"
    /\ Len(authors) < MaxAuthors
    /\ \E a \in AuthorPool :
          /\ Deviations(Append(authors, a)) <= MaxDeviations
          /\ authors' = Append(authors, a)
    /\ UNCHANGED <<formatted, apc, notAuthVars>>

CallJoinAuthors ==
    /\ apc = "input"
    /\ formatted' = join_authors([author |-> authors])
    /\ apc' = "done"
    /\ UNCHANGED <<authors, notAuthVars>>

(***************************************************************************)
(* choose_category on one list of publication types and one title.         *)
(***************************************************************************)
MaxTypes == 3

\* one type of each category, and one that the table does not hold
InputTypes ==
    { "Meta-Analysis", "Randomized Controlled Trial", "Practice Guideline",
      "Review", "Letter", "Cohort Studies", "Journal Article" }

TitleRct ==
    <<"A", " ", "Randomized", " ", "Controlled", " ", "Trial", " ", "of", " ", "X">>

InputTitles ==
    { <<>>, TitleRct, SampleTitle,
      <<"Review", " ", "and", " ", "Meta", "-", "Analysis">>,
      <<"Cohort", " ", "Guidelines">>,
      <<"Reply", " ", "to", " ", "Letter">>,
      <<"Registry", " ", "data">>,
      <<"Systematic", " ", "Review">>,
      <<"Trials", " ", "reviewed">> }

InitCat ==
    /\ pub_types \in UNION { [1..n -> InputTypes] : n \in 0..MaxTypes }
    /\ title \in InputTitles
    /\ category = NONE
    /\ cpc = "input"
    /\ raw = <<>> /\ item = NoItem /\ ipc = "idle"
    /\ authors = <<>> /\ formatted = <<>> /\ apc = "idle"
    /\ sources_json = <<>> /\ metrics_file = <<>> /\ have_old = FALSE
    /\ mpc = "idle" /\ attempt = 0 /\ last_err = NONE
    /\ contacted = <<>> /\ metric_writes = <<>> /\ mexit = NONE
    /\ metrics_file0 = <<>> /\ warned = <<>>
    /\ sources = <<>> /\ pc = "idle" /\ si = 0 /\ unified = <<>>
    /\ deduped = <<>> /\ lookups = 0 /\ li = 0 /\ pmids_to_fetch = <<>>
    /\ pmids_unique = <<>> /\ bi = 0 /\ pmid_to_types = <<>>
    /\ data_json = <<>> /\ exit_status = NONE /\ queried = <<>>
    /\ lookup_log = <<>>
    /\ csv_rows = <<>> /\ csv_header = <<>>
    /\ build_result = <<>> /\ bpc = "idle"

ChooseCategory ==
    /\ cpc = "input"
    /\ category' = choose_category(pub_types, title)
    /\ cpc' = "done"
    /\ UNCHANGED <<pub_types, title, notCatVars>>

(***************************************************************************)
(* build_metrics.py main.  The texts a source can return: pages that       *)
(* build_from_text rejects, and tables of at most MaxCsvRows rows.         *)
(***************************************************************************)
MaxCsvRows == 2

IssnA == <<"0", "0", "0", "3", "-", "3", "0", "2", "2">>
IssnX == <<"1", "2", "3", "4", "-", "5", "6", "7", "X">>
IssnOther == <<"9", "9", "9", "9", "-", "9", "9", "9", "9">>

MetricsCatalog ==
    << [name |-> "Anesthesiology", short |-> "ANES", issn |-> <<"0", "0", "0", "3", "3", "0", "2", "2">>],
       [name |-> "Journal X", short |-> "JX", issn |-> <<" ", "1", "2", "3", "4", "-", "5", "6", "7", "x">>],
       [name |-> "No ISSN", short |-> "NI", issn |-> <<>>] >>

CsvRow(year, issn, sjr, ttl) ==
    [year |-> year, issn |-> issn, sjr |-> sjr, title |-> ttl]

CsvRows ==
    { CsvRow(<<"2", "0", "2", "3">>, <<<<"0", "0", "0", "3", "3", "0", "2", "2">>, <<" ", "1", "2", "3", "4", "5", "6", "7", "x">>>>, <<"1", ",", "5">>, "Anesthesiology"),
      CsvRow(<<"2", "0", "2", "3">>, <<IssnA>>, <<"2", ".", "2", "5">>, "Anesthesiology (2)"),
      CsvRow(<<"2", "0", "2", "2">>, <<IssnX>>, <<"3", ".", "0">>, "Journal X 2022"),
      CsvRow(<<"2", "0", "2", "3">>, <<IssnOther, IssnX>>, <<"0", ",", "8", "7", "5">>, "Journal X"),
      CsvRow(<<"2", "0", "2", "3">>, <<IssnX>>, <<>>, "Journal X no SJR"),
      CsvRow(<<"n", "/", "a">>, <<IssnA>>, <<"9">>, "no year"),
      CsvRow(<<"2", "0", "2", "3">>, <<IssnA>>, <<"n", "a", "n">>, "Anesthesiology (nan)"),
      CsvRow(<<" ", "2", "0", "2", "4", " ">>, <<>>, <<"7", ".", "5">>, "no ISSN") }

HeaderScimago == <<"Rank", "Title", "Issn", "SJR", "Year">>
HeaderMirror == <<"year", "issn", "sjr", "journal">>

CsvText(html, semis, commas, sep, header, rows) ==
    [html |-> html, semis |-> semis, commas |-> commas, sep |-> sep,
     header |-> header, rows |-> rows]

SomeRow == CHOOSE r \in CsvRows : ParseYearCell(r.year) = 2023

FetchedTexts ==
    { CsvText(FALSE, 8, 3, ";", HeaderScimago, rows) :
        rows \in UNION { [1..n -> CsvRows] : n \in 0..MaxCsvRows } }
    \cup { CsvText(TRUE, 0, 0, ",", <<>>, <<>>),
           CsvText(FALSE, 6, 2, ";", <<"Rank", "Title", "Issn", "SJR">>, <<SomeRow>>),
           CsvText(FALSE, 4, 9, ";", HeaderScimago, <<SomeRow>>),
           CsvText(FALSE, 0, 6, ",", HeaderMirror, <<SomeRow>>) }

OldMetrics ==
    [sjr_year |-> 2021, coverage |-> [matched |-> 0, total_sources |-> 3],
     by_issn |-> EmptyMap]

InitMetrics ==
    /\ sources_json \in {<<>>, <<MetricsCatalog>>}
    /\ metrics_file \in {<<>>, <<OldMetrics>>}
    /\ metrics_file0 = metrics_file
    /\ have_old = FALSE
    /\ mpc = "start" /\ attempt = 0 /\ last_err = NONE
    /\ contacted = <<>> /\ metric_writes = <<>> /\ warned = <<>>
    /\ mexit = NONE
    /\ raw = <<>> /\ item = NoItem /\ ipc = "idle"
    /\ authors = <<>> /\ formatted = <<>> /\ apc = "idle"
    /\ pub_types = <<>> /\ title = <<>> /\ category = NONE /\ cpc = "idle"
    /\ sources = <<>> /\ pc = "idle" /\ si = 0 /\ unified = <<>>
    /\ deduped = <<>> /\ lookups = 0 /\ li = 0 /\ pmids_to_fetch = <<>>
    /\ pmids_unique = <<>> /\ bi = 0 /\ pmid_to_types = <<>>
    /\ data_json = <<>> /\ exit_status = NONE /\ queried = <<>>
    /\ lookup_log = <<>>
    /\ csv_rows = <<>> /\ csv_header = <<>>
    /\ build_result = <<>> /\ bpc = "idle"

\* lines 225-230: sources.json missing, or load_sources and have_old
MetricsStart ==
    /\ mpc = "start"
    /\ IF sources_json = <<>>
       THEN /\ mexit' = 2
            /\ mpc' = "exit"
            /\ UNCHANGED <<have_old, attempt>>
       ELSE /\ have_old' = (metrics_file # <<>>)
            /\ attempt' = 1
            /\ mpc' = "loop"
            /\ UNCHANGED mexit
    /\ UNCHANGED <<sources_json, metrics_file, metrics_file0, last_err,
                   contacted, metric_writes, warned, notMetVars>>

\* the except branch of the loop body, and the step to the next attempt
AttemptFailed(err) ==
    /\ last_err' = err
    /\ warned' = Append(warned, SourceLabels[attempt])
    /\ contacted' = Append(contacted, SourceLabels[attempt])
    /\ attempt' = attempt + 1
    /\ mpc' = IF attempt < Len(SourceLabels) THEN "loop" ELSE "failed"
    /\ UNCHANGED <<sources_json, metrics_file, metrics_file0, have_old,
                   metric_writes, mexit, notMetVars>>

\* attempt() raises: transport or HTTP-status error
AttemptFetchFails ==
    /\ mpc = "loop"
    /\ AttemptFailed("fetch failed")

\* attempt() returns a text that build_from_text rejects
AttemptBuildFails ==
    /\ mpc = "loop"
    /\ \E text \in FetchedTexts :
          LET built == build_from_text(text, WantedIssns(sources_json[1])) IN
          /\ ~built.ok
          /\ AttemptFailed(built.err)

\* attempt() returns a text that build_from_text accepts: write, return 0
AttemptSucceeds ==
    /\ mpc = "loop"
    /\ \E text \in FetchedTexts :
          LET built == build_from_text(text, WantedIssns(sources_json[1])) IN
          /\ built.ok
          /\ metrics_file' = <<MetricsOut(built, sources_json[1])>>
          /\ metric_writes' =
                Append(metric_writes, [label |-> SourceLabels[attempt], text |-> text])
    /\ contacted' = Append(contacted, SourceLabels[attempt])
    /\ mexit' = 0
    /\ mpc' = "exit"
    /\ UNCHANGED <<sources_json, metrics_file0, have_old, attempt, last_err,
                   warned, notMetVars>>

\* exit 1 whether or not an old file exists
FailOnTotalFailure(old) == 1

ExitOnTotalFailure(old) == IF old THEN 0 ELSE 1

\* lines 262-269: both failed
MetricsGiveUp ==
    /\ mpc = "failed"
    /\ mexit' = ExitOnTotalFailure(have_old)
    /\ mpc' = "exit"
    /\ UNCHANGED <<sources_json, metrics_file, metrics_file0, have_old,
                   attempt, last_err, contacted, metric_writes, warned,
                   notMetVars>>

(***************************************************************************)
(* build_from_text applied to one CSV text, whose rows are drawn one by    *)
(* one.                                                                    *)
(***************************************************************************)
MaxBuildRows == 3

TextOf(header, rows) ==
    IF header = HeaderScimago
    THEN CsvText(FALSE, 8, 3, ";", header, rows)
    ELSE CsvText(FALSE, 0, 6, ",", header, rows)

InitBuild ==
    /\ csv_rows = <<>>
    /\ csv_header \in {HeaderScimago, HeaderMirror}
    /\ build_result = <<>> /\ bpc = "rows"
    /\ raw = <<>> /\ item = NoItem /\ ipc = "idle"
    /\ authors = <<>> /\ formatted = <<>> /\ apc = "idle"
    /\ pub_types = <<>> /\ title = <<>> /\ category = NONE /\ cpc = "idle"
    /\ sources_json = <<>> /\ metrics_file = <<>> /\ have_old = FALSE
    /\ mpc = "idle" /\ attempt = 0 /\ last_err = NONE
    /\ contacted = <<>> /\ metric_writes = <<>> /\ mexit = NONE
    /\ metrics_file0 = <<>> /\ warned = <<>>
    /\ sources = <<>> /\ pc = "idle" /\ si = 0 /\ unified = <<>>
    /\ deduped = <<>> /\ lookups = 0 /\ li = 0 /\ pmids_to_fetch = <<>>
    /\ pmids_unique = <<>> /\ bi = 0 /\ pmid_to_types = <<>>
    /\ data_json = <<>> /\ exit_status = NONE /\ queried = <<>>
    /\ lookup_log = <<>>

AppendCsvRow ==
    /\ bpc = "rows"
    /\ Len(csv_rows) < MaxBuildRows
    /\ \E r \in CsvRows : csv_rows' = Append(csv_rows, r)
    /\ UNCHANGED <<csv_header, build_result, bpc, notBuildVars>>

CallBuildFromText ==
    /\ bpc = "rows"
    /\ build_result' = <<build_from_text(TextOf(csv_header, csv_rows),
                                         WantedIssns(MetricsCatalog))>>
    /\ bpc' = "done"
    /\ UNCHANGED <<csv_rows, csv_header, notBuildVars>>

(***************************************************************************)
(* build_data.py main.  sources.json, the works Crossref holds for each    *)
(* ISSN, and what PubMed holds.                                            *)
(***************************************************************************)
Catalog ==
    << [name |-> "Anesthesiology", short |-> "ANES",
        issn |-> [list |-> FALSE, val |-> "0003-3022"]],
       [name |-> "No ISSN", short |-> "NI",
        issn |-> [list |-> FALSE, val |-> ""]],
       [name |-> "British Journal of Anaesthesia",
        issn |-> [list |-> TRUE, val |-> <<"0007-0912", "1471-6771">>]],
       [name |-> "Empty ISSN list", short |-> "EL",
        issn |-> [list |-> TRUE, val |-> <<>>]],
       [name |-> "Anesthesia and Analgesia", short |-> "A&A",
        issn |-> [list |-> FALSE, val |-> "0003-2999"]] >>

OneAuthor == <<[family |-> Li, given |-> Ann]>>

\* DOI 10.1/a, online before print
WorkA ==
    RawWork("10.1/a", "", <<TitleRct>>, OneAuthor,
            <<<<2024, 1, 10>>>>, <<<<2024, 3, 1>>>>, Absent, Absent, Absent, Absent)
\* the same DOI in upper case, an earlier date
WorkUpperA ==
    RawWork("10.1/A", "http://x/A", <<<<"Cohort", " ", "Guidelines">>>>, <<>>,
            Absent, Absent, <<<<2023>>>>, Absent, Absent, Absent)
\* no DOI, a URL, no date
WorkUrl ==
    RawWork("", "http://x/u", <<SampleTitle>>, OneAuthor,
            Absent, Absent, Absent, Absent, Absent, Absent)
\* the same URL, dated today
WorkUrlAgain ==
    RawWork("", "http://x/u", <<<<"Registry", " ", "data">>>>, <<>>,
            <<TodayParts>>, Absent, Absent, Absent, Absent, Absent)
\* only a future issued date
WorkB ==
    RawWork("10.1/b", "", <<<<"Reply", " ", "to", " ", "Letter">>>>, OneAuthor,
            Absent, Absent, <<<<2025, 2, 3>>>>, Absent, Absent, Absent)
\* the same published date as WorkA
WorkC ==
    RawWork("10.1/c", "http://x/c", <<<<"Systematic", " ", "Review">>>>, <<>>,
            Absent, Absent, Absent, <<<<2024, 3, 1>>>>, Absent, Absent)
\* a title of white space only
WorkNoTitle ==
    RawWork("10.1/c", "", <<<<" ", "\t">>>>, OneAuthor,
            Absent, Absent, <<<<2024, 1, 10>>>>, Absent, Absent, Absent)
\* neither DOI nor URL
WorkNoKey ==
    RawWork("", "", <<<<"Trials", " ", "reviewed">>>>, OneAuthor,
            Absent, Absent, Absent, <<<<2024, 5, 20>>>>, Absent, Absent)

CrossrefWorks(issn) ==
    CASE issn = "0003-3022" -> {WorkA, WorkUpperA, WorkUrl}
      [] issn = "0007-0912" -> {WorkB, WorkC, WorkNoTitle}
      [] issn = "0003-2999" -> {WorkA, WorkUrlAgain, WorkNoKey}
      [] OTHER -> {}

\* the lists of at most `rows` works a query for `issn` can return
Responses(issn, rows) ==
    { f \in UNION { [1..n -> CrossrefWorks(issn)] : n \in 0..RowsAsked(rows) } :
        \A i, j \in 1..Len(f) : i # j => f[i] # f[j] }

\* esearch: the first identifier PubMed holds for a DOI
PmidOf(doi) ==
    CASE lower(doi) = "10.1/a" -> "101"
      [] lower(doi) = "10.1/b" -> "102"
      [] OTHER -> "101"

\* efetch: the publication types PubMed returns for a PMID
PubMedTypes ==
    ("101" :> <<"Review", "Meta-Analysis">>) @@ ("102" :> <<"Journal Article">>)

Init ==
    /\ sources = Catalog
    /\ pc = "harvest" /\ si = 1 /\ unified = <<>>
    /\ deduped = <<>> /\ lookups = 0 /\ li = 0 /\ pmids_to_fetch = <<>>
    /\ pmids_unique = <<>> /\ bi = 0 /\ pmid_to_types = <<>>
    /\ data_json = <<>> /\ exit_status = NONE /\ queried = <<>>
    /\ lookup_log = <<>>
    /\ csv_rows = <<>> /\ csv_header = <<>>
    /\ build_result = <<>> /\ bpc = "idle"
    /\ raw = <<>> /\ item = NoItem /\ ipc = "idle"
    /\ authors = <<>> /\ formatted = <<>> /\ apc = "idle"
    /\ pub_types = <<>> /\ title = <<>> /\ category = NONE /\ cpc = "idle"
    /\ sources_json = <<>> /\ metrics_file = <<>> /\ have_old = FALSE
    /\ mpc = "idle" /\ attempt = 0 /\ last_err = NONE
    /\ contacted = <<>> /\ metric_writes = <<>> /\ mexit = NONE
    /\ metrics_file0 = <<>> /\ warned = <<>>

harvestRest ==
    <<sources, deduped, lookups, li, pmids_to_fetch, pmids_unique, bi,
      pmid_to_types, data_json, exit_status, lookup_log, notMainVars>>

\* lines 401-402: a source without ISSN is passed over
HarvestNoIssn ==
    /\ pc = "harvest" /\ si <= Len(sources)
    /\ FirstIssn(sources[si]) = ""
    /\ si' = si + 1
    /\ UNCHANGED <<pc, unified, queried, harvestRest>>

\* break in place of continue
StopAfterFailure(i) == Len(Catalog) + 1

\* line 408: continue
NextAfterFailure(i) == i + 1

\* lines 404-408: the query raises
HarvestFails ==
    /\ pc = "harvest" /\ si <= Len(sources)
    /\ FirstIssn(sources[si]) # ""
    /\ queried' = Append(queried, [source |-> si, ok |-> FALSE, works |-> <<>>])
    /\ si' = NextAfterFailure(si)
    /\ UNCHANGED <<pc, unified, harvestRest>>

\* lines 404-413: the query returns works
HarvestReturns ==
    /\ pc = "harvest" /\ si <= Len(sources)
    /\ FirstIssn(sources[si]) # ""
    /\ \E works \in Responses(FirstIssn(sources[si]), CROSSREF_ROWS_PER_JOURNAL) :
          /\ queried' = Append(queried, [source |-> si, ok |-> TRUE, works |-> works])
          /\ unified' = unified \o ItemsOf(sources[si].name, ShortOf(sources[si]),
                                            works, Today)
    /\ si' = si + 1
    /\ UNCHANGED <<pc, harvestRest>>

\* lines 415-435: deduplicate, sort, start the lookup loop.  From here on
\* `unified` keeps the records as they were harvested; the code's later
\* writes of pmid, pubmed_url, types and category are followed in `deduped`.
DedupeAndSort ==
    /\ pc = "harvest" /\ si > Len(sources)
    /\ deduped' = SortDesc(Dedupe(unified, {}))
    /\ pmids_to_fetch' = <<>>
    /\ lookups' = 0
    /\ li' = 1
    /\ pc' = "lookup"
    /\ UNCHANGED <<sources, si, unified, pmids_unique, bi, pmid_to_types,
                   data_json, exit_status, queried, lookup_log, notMainVars>>

lookupRest ==
    <<sources, pc, si, unified, pmids_unique, bi, pmid_to_types, data_json,
      exit_status, queried, notMainVars>>

\* lines 437-439 and the end of the loop
LookupLoopEnds ==
    /\ pc = "lookup"
    /\ li > Len(deduped) \/ lookups >= PMID_LOOKUP_BUDGET
    /\ pc' = "efetch"
    /\ pmids_unique' = Unique(pmids_to_fetch, {})
    /\ bi' = 1
    /\ UNCHANGED <<sources, si, unified, deduped, lookups, li, pmids_to_fetch,
                   pmid_to_types, data_json, exit_status, queried, lookup_log,
                   notMainVars>>

LookupAt == pc = "lookup" /\ li <= Len(deduped) /\ lookups < PMID_LOOKUP_BUDGET

\* lines 440-442: an item without DOI
LookupNoDoi ==
    /\ LookupAt
    /\ deduped[li].doi = ""
    /\ li' = li + 1
    /\ UNCHANGED <<deduped, lookups, pmids_to_fetch, lookup_log, lookupRest>>

\* lines 444-450: doi_to_pmid returns a PMID
LookupFinds ==
    /\ LookupAt
    /\ deduped[li].doi # ""
    /\ LET pmid == PmidOf(deduped[li].doi) IN
          /\ deduped' = [deduped EXCEPT
                ![li].pmid = pmid,
                ![li].pubmed_url = "https://pubmed.ncbi.nlm.nih.gov/" \o pmid \o "/"]
          /\ pmids_to_fetch' = Append(pmids_to_fetch, pmid)
          /\ lookup_log' = Append(lookup_log,
                                 [doi |-> deduped[li].doi, result |-> pmid])
    /\ lookups' = lookups + 1
    /\ li' = li + 1
    /\ UNCHANGED lookupRest

\* lines 444-450: doi_to_pmid returns None
LookupFindsNone ==
    /\ LookupAt
    /\ deduped[li].doi # ""
    /\ lookup_log' = Append(lookup_log, [doi |-> deduped[li].doi, result |-> NONE])
    /\ lookups' = lookups + 1
    /\ li' = li + 1
    /\ UNCHANGED <<deduped, pmids_to_fetch, lookupRest>>

\* a failed lookup that is not counted
UncountedFailure(n) == n

\* line 453
CountedFailure(n) == n + 1

\* lines 451-454: doi_to_pmid raises
LookupRaises ==
    /\ LookupAt
    /\ deduped[li].doi # ""
    /\ lookup_log' = Append(lookup_log, [doi |-> deduped[li].doi, result |-> "raised"])
    /\ lookups' = CountedFailure(lookups)
    /\ li' = li + 1
    /\ UNCHANGED <<deduped, pmids_to_fetch, lookupRest>>

efetchRest ==
    <<sources, si, unified, deduped, lookups, li, pmids_to_fetch, pmids_unique,
      data_json, exit_status, queried, lookup_log, notMainVars>>

EfetchAt == pc = "efetch" /\ bi <= Len(pmids_unique)

Batch == SubSeq(pmids_unique, bi, Min2(bi + BatchSize - 1, Len(pmids_unique)))

\* lines 470-473: efetch_publication_types returns
EfetchReturns ==
    /\ EfetchAt
    /\ LET got == [q \in { Batch[i] : i \in 1..Len(Batch) } \cap DOMAIN PubMedTypes
                      |-> PubMedTypes[q]]
       IN  pmid_to_types' = got @@ pmid_to_types
    /\ bi' = bi + BatchSize
    /\ UNCHANGED <<pc, efetchRest>>

\* lines 474-476: efetch_publication_types raises
EfetchRaises ==
    /\ EfetchAt
    /\ bi' = bi + BatchSize
    /\ UNCHANGED <<pc, pmid_to_types, efetchRest>>

\* lines 479-494: types, category, the None fields; the cap
AssignAndCap ==
    /\ pc = "efetch" /\ bi > Len(pmids_unique)
    /\ deduped' = Capped([i \in 1..Len(deduped) |->
                              AssignItem(deduped[i], pmid_to_types)])
    /\ pc' = "write"
    /\ UNCHANGED <<sources, si, unified, lookups, li, pmids_to_fetch,
                   pmids_unique, bi, pmid_to_types, data_json, exit_status,
                   queried, lookup_log, notMainVars>>

\* lines 496-515: write data.json, return 0
WriteData ==
    /\ pc = "write"
    /\ data_json' = <<DataOut(deduped)>>
    /\ exit_status' = 0
    /\ pc' = "done"
    /\ UNCHANGED <<sources, si, unified, deduped, lookups, li, pmids_to_fetch,
                   pmids_unique, bi, pmid_to_types, queried, lookup_log,
                   notMainVars>>

(***************************************************************************)
(* Specifications                                                          *)
(***************************************************************************)
NextItem == ToItem
SpecItem == InitItem /\ [][NextItem]_vars

NextAuthors == AppendAuthor \/ CallJoinAuthors
SpecAuthors == InitAuthors /\ [][NextAuthors]_vars

NextCat == ChooseCategory
SpecCat == InitCat /\ [][NextCat]_vars

NextMetrics ==
    \/ MetricsStart
    \/ AttemptFetchFails
    \/ AttemptBuildFails
    \/ AttemptSucceeds
    \/ MetricsGiveUp
SpecMetrics == InitMetrics /\ [][NextMetrics]_vars

NextBuild ==
    \/ AppendCsvRow
    \/ CallBuildFromText
SpecBuild == InitBuild /\ [][NextBuild]_vars

Next ==
    \/ HarvestNoIssn
    \/ HarvestFails
    \/ HarvestReturns
    \/ DedupeAndSort
    \/ LookupLoopEnds
    \/ LookupNoDoi
    \/ LookupFinds
    \/ LookupFindsNone
    \/ LookupRaises
    \/ EfetchReturns
    \/ EfetchRaises
    \/ AssignAndCap
    \/ WriteData
Spec == Init /\ [][Next]_vars

(***************************************************************************)
(* Calendar dates, for stating the claims: a date is <<y, m, d>>, ordered  *)
(* as dates are, and read back from an ISO string by splitting at "-".     *)
(***************************************************************************)
DateLess(p, q) ==
    \/ p[1] < q[1]
    \/ p[1] = q[1] /\ p[2] < q[2]
    \/ p[1] = q[1] /\ p[2] = q[2] /\ p[3] < q[3]

DateLE(p, q) == p = q \/ DateLess(p, q)

RECURSIVE SplitDash(_, _)
SplitDash(s, cur) ==
    IF s = <<>> THEN <<cur>>
    ELSE IF Head(s) = "-" THEN <<cur>> \o SplitDash(Tail(s), <<>>)
    ELSE SplitDash(Tail(s), Append(cur, Head(s)))

ParseIso(s) ==
    LET f == SplitDash(s, <<>>) IN [i \in 1..Len(f) |-> NumberOf(f[i])]

\* the calendar dates a record's fields resolve to (month, day default to 1)
FieldDate(rec, field) ==
    LET p == rec[field][1] IN
    <<p[1], IF Len(p) >= 2 THEN p[2] ELSE 1, IF Len(p) >= 3 THEN p[3] ELSE 1>>

HasDate(rec, field) == rec[field] # <<>> /\ rec[field][1] # <<>>

CandidateDates(rec) ==
    { FieldDate(rec, DateFields[i]) :
        i \in { j \in 1..Len(DateFields) : HasDate(rec, DateFields[j]) } }

LatestDate(S) == CHOOSE d \in S : \A e \in S : DateLE(e, d)
EarliestDate(S) == CHOOSE d \in S : \A e \in S : DateLE(d, e)

PastDates(rec) == { d \in CandidateDates(rec) : DateLE(d, TodayParts) }

(***************************************************************************)
(* C2 (as stated): every item with a non-null published date has a         *)
(* published date that is not after the run's current date.                *)
(***************************************************************************)
C2_NeverFuture ==
    (ipc = "done" /\ item.published # NoneStr)
        => DateLE(ParseIso(item.published), TodayParts)

(***************************************************************************)
(* C2 (amended): a non-null published date is not after the run's current  *)
(* date unless every resolvable date of the record is after it, and then   *)
(* published is the earliest of those future dates.                        *)
(***************************************************************************)
C2_FutureOnlyWhenAllFuture ==
    (ipc = "done" /\ item.published # NoneStr)
        => \/ DateLE(ParseIso(item.published), TodayParts)
           \/ /\ PastDates(raw) = {}
              /\ ParseIso(item.published) = EarliestDate(CandidateDates(raw))

\* a record with a past and a future date, published on the past one
C2_Witness ==
    /\ ipc = "done"
    /\ PastDates(raw) # {}
    /\ PastDates(raw) # CandidateDates(raw)
    /\ item.published # NoneStr
    /\ DateLE(ParseIso(item.published), TodayParts)

(***************************************************************************)
(* C4: pick_date returns null without a candidate, the latest of the       *)
(* candidates not after today when there is one, and the earliest          *)
(* candidate when all are in the future.                                   *)
(***************************************************************************)
C4_PickDate ==
    ipc = "done" =>
        IF CandidateDates(raw) = {} THEN item.published = NoneStr
        ELSE /\ item.published # NoneStr
             /\ Len(item.published) = 10
             /\ ParseIso(item.published) =
                    IF PastDates(raw) # {} THEN LatestDate(PastDates(raw))
                    ELSE EarliestDate(CandidateDates(raw))

\* only a future issued date: that date is returned
C4_Witness ==
    /\ ipc = "done"
    /\ raw["issued"] = <<<<2025, 2, 3>>>>
    /\ \A i \in 1..Len(DateFields) :
          DateFields[i] # "issued" => raw[DateFields[i]] = Absent
    /\ item.published = <<"2", "0", "2", "5", "-", "0", "2", "-", "0", "3">>

(***************************************************************************)
(* C6: aop is true exactly when an online date exists and either no print  *)
(* or issued date exists or the earliest of them is strictly after the     *)
(* online date.                                                            *)
(***************************************************************************)
PrintIssuedDates(rec) ==
    { FieldDate(rec, f) : f \in { g \in {"published-print", "issued"} : HasDate(rec, g) } }

C6_Aop ==
    ipc = "done" =>
        (item.aop <=>
            /\ HasDate(raw, "published-online")
            /\ \/ PrintIssuedDates(raw) = {}
               \/ DateLess(FieldDate(raw, "published-online"),
                           EarliestDate(PrintIssuedDates(raw))))

\* online 2024-01-10 with print 2024-03-01 and no issued date: aop is true
C6_Witness ==
    /\ ipc = "done"
    /\ raw["published-online"] = <<<<2024, 1, 10>>>>
    /\ raw["published-print"] = <<<<2024, 3, 1>>>>
    /\ raw["issued"] = Absent
    /\ item.aop

OnlyIssued ==
    /\ raw["published-online"] = Absent
    /\ raw["published-print"] = Absent
    /\ raw["issued"] = <<<<2024, 1, 10>>>>

(***************************************************************************)
(* C7 (as stated): a record whose only date is issued = 2024-01-10 (no     *)
(* online and no print date) is given aop = true.                          *)
(***************************************************************************)
C7_OnlyIssuedIsAop == (ipc = "done" /\ OnlyIssued) => item.aop

(***************************************************************************)
(* C7 (amended): a record whose only date is issued = 2024-01-10 (no       *)
(* online and no print date) is given aop = false.                         *)
(***************************************************************************)
C7_OnlyIssuedIsNotAop == (ipc = "done" /\ OnlyIssued) => ~item.aop

C7_Witness ==
    /\ ipc = "done" /\ OnlyIssued
    /\ raw["created"] = Absent /\ raw["indexed"] = Absent
    /\ raw["deposited"] = Absent
    /\ item.aop = FALSE
    /\ item.published = <<"2", "0", "2", "4", "-", "0", "1", "-", "1", "0">>

(***************************************************************************)
(* The formatted author string, for stating C8.                            *)
(***************************************************************************)
HasFamily(a) == a.family # <<>>

FirstTen(as) == SubSeq(as, 1, Min2(10, Len(as)))

\* "Family I." with both names, "Family" with the family name alone
Formatted(a) ==
    IF a.given # <<>> THEN a.family \o <<" ">> \o <<Head(a.given)>> \o <<".">>
    ELSE a.family

\* the formatted entries of `as` that have a family name, joined by ", "
RECURSIVE NamedJoined(_)
NamedJoined(as) ==
    LET named == SelectSeq(as, HasFamily) IN
    IF named = <<>> THEN <<>>
    ELSE IF Len(named) = 1 THEN Formatted(named[1])
    ELSE NamedJoined(SubSeq(named, 1, Len(named) - 1))
            \o CommaSpace \o Formatted(named[Len(named)])

EndsWith(s, suffix) ==
    /\ Len(s) >= Len(suffix)
    /\ SubSeq(s, Len(s) - Len(suffix) + 1, Len(s)) = suffix

(***************************************************************************)
(* C8 (as stated): the result is the formatted first 10 entries joined by  *)
(* ", ", with " et al." appended if and only if there are more than 10     *)
(* authors.                                                                *)
(***************************************************************************)
C8_EtAlIffMoreThanTen ==
    apc = "done" =>
        /\ (EndsWith(formatted, EtAl) <=> Len(authors) > 10)
        /\ formatted = NamedJoined(FirstTen(authors))
                \o (IF Len(authors) > 10 THEN EtAl ELSE <<>>)

(***************************************************************************)
(* C8 (amended): the result is the formatted first 10 entries joined by    *)
(* ", ", with " et al." appended if and only if there are more than 10     *)
(* authors and at least one of the first 10 has a family name; when none   *)
(* of the first 10 has a family name the result is the empty string.       *)
(***************************************************************************)
C8_EtAlIffMoreThanTenNamed ==
    apc = "done" =>
        LET someNamed == \E i \in 1..Len(FirstTen(authors)) :
                            HasFamily(authors[i])
        IN  /\ (EndsWith(formatted, EtAl) <=> (Len(authors) > 10 /\ someNamed))
            /\ formatted = NamedJoined(FirstTen(authors))
                    \o (IF Len(authors) > 10 /\ someNamed THEN EtAl ELSE <<>>)
            /\ ~someNamed => formatted = <<>>

\* 11 authors with both names: the first 10 as "Li A." and " et al."
C8_Witness ==
    /\ apc = "done"
    /\ Len(authors) = 11
    /\ \A i \in 1..11 : authors[i] = [family |-> Li, given |-> Ann]
    /\ EndsWith(formatted, EtAl)
    /\ Len(formatted) = 10 * 5 + 9 * 2 + 7
    /\ SubSeq(formatted, 1, 12)
          = <<"L", "i", " ", "A", ".", ",", " ", "L", "i", " ", "A", ".">>

(***************************************************************************)
(* C5: when a publication type is in the lookup table the category is the  *)
(* highest-precedence mapped one (Meta-analysis > RCT > Guideline > Review *)
(* > Editorial > Observational), whatever the order of the types and the   *)
(* title; otherwise it is the category of the first title rule that        *)
(* matches; Unclassified exactly when no type maps and no rule matches.    *)
(***************************************************************************)
Rank(c) ==
    CASE c = CAT_META -> 1 [] c = CAT_RCT -> 2 [] c = CAT_GUIDE -> 3
      [] c = CAT_REVIEW -> 4 [] c = CAT_EDITORIAL -> 5 [] c = CAT_OBS -> 6

MappedCategories(types) ==
    { PUBMED_TYPE_TO_CATEGORY[types[i]] :
        i \in { j \in 1..Len(types) : types[j] \in DOMAIN PUBMED_TYPE_TO_CATEGORY } }

RuleMatches(i, ttl) ==
    Search(TITLE_RULES[i].pattern, [k \in 1..Len(ttl) |-> lower(ttl[k])])

C5_ChooseCategory ==
    cpc = "done" =>
        LET cats == MappedCategories(pub_types)
            rules == { i \in 1..Len(TITLE_RULES) : RuleMatches(i, title) }
        IN  /\ cats # {} =>
                  /\ category \in cats
                  /\ \A c \in cats : Rank(category) <= Rank(c)
            /\ (cats = {} /\ rules # {}) =>
                  \E i \in rules :
                      /\ category = TITLE_RULES[i].cat
                      /\ \A j \in rules : i <= j
            /\ (category = CAT_UNK) <=> (cats = {} /\ rules = {})
            /\ (pub_types = <<>> /\ title = TitleRct) => category = CAT_RCT

\* ["Review", "Meta-Analysis"] with a trial title is Meta-analysis
C5_Witness ==
    /\ cpc = "done"
    /\ pub_types = <<"Review", "Meta-Analysis">>
    /\ title = TitleRct
    /\ category = CAT_META

(***************************************************************************)
(* C1: when the primary and the fallback source both fail, a metrics file  *)
(* that existed at the start is unchanged and the exit status is 0; when   *)
(* none existed, none is created and the exit status is 1.                 *)
(***************************************************************************)
BothSourcesFailed == warned = SourceLabels

C1_NoOpOnTotalFailure ==
    BothSourcesFailed =>
        /\ metrics_file = metrics_file0
        /\ mpc = "exit" =>
              /\ metrics_file0 # <<>> => mexit = 0
              /\ metrics_file0 = <<>> => mexit = 1

\* both failed, the second on an HTML page, with an old file: exit 0
C1_Witness ==
    /\ mpc = "exit"
    /\ BothSourcesFailed
    /\ last_err = "Received HTML instead of CSV (likely blocked)"
    /\ metrics_file0 = <<OldMetrics>>
    /\ metrics_file = <<OldMetrics>>
    /\ mexit = 0


(***************************************************************************)
(* The article pipeline.                                                   *)
(***************************************************************************)
Written == data_json # <<>>
WrittenItems == data_json[1].items

\* the deduplication key as the dataset documents it
KeyOf(it) == IF it.doi # "" THEN lower(it.doi) ELSE it.url

\* the fields a record has from harvest on
SameRecord(x, y) ==
    /\ x.journal = y.journal /\ x.journal_short = y.journal_short
    /\ x.title = y.title /\ x.authors = y.authors
    /\ x.published = y.published /\ x.doi = y.doi /\ x.url = y.url
    /\ x.aop = y.aop

\* C3: in the written dataset every item has a non-empty key (lower-cased
\* DOI, else URL), no two items share a key, and each item is the first of
\* the harvested records (those that have a title, in catalog order and then
\* Crossref order) that carry its key.
C3_UniqueKeysFirstWins ==
    Written =>
        /\ \A i \in 1..Len(WrittenItems) : KeyOf(WrittenItems[i]) # ""
        /\ \A i, j \in 1..Len(WrittenItems) :
              i # j => KeyOf(WrittenItems[i]) # KeyOf(WrittenItems[j])
        /\ \A i \in 1..Len(WrittenItems) :
              \E k \in 1..Len(unified) :
                 /\ SameRecord(WrittenItems[i], unified[k])
                 /\ \A h \in 1..(k - 1) : KeyOf(unified[h]) # KeyOf(unified[k])

\* a written dataset of two items or more, from a harvest in which a DOI
\* came twice in different case and a record had no key at all
C3_Witness ==
    /\ Written
    /\ Len(WrittenItems) >= 2
    /\ \E h, k \in 1..Len(unified) :
          /\ h < k
          /\ unified[h].doi # unified[k].doi
          /\ unified[h].doi # ""
          /\ KeyOf(unified[h]) = KeyOf(unified[k])
    /\ \E k \in 1..Len(unified) : KeyOf(unified[k]) = ""

\* the catalog entries that have an ISSN, in catalog order
RECURSIVE WithIssn(_)
WithIssn(i) ==
    IF i > Len(Catalog) THEN <<>>
    ELSE (IF FirstIssn(Catalog[i]) # "" THEN <<i>> ELSE <<>>) \o WithIssn(i + 1)

\* what the journals whose query returned contribute, in order
RECURSIVE Contributions(_)
Contributions(log) ==
    IF log = <<>> THEN <<>>
    ELSE (IF Head(log).ok
          THEN ItemsOf(Catalog[Head(log).source].name,
                       ShortOf(Catalog[Head(log).source]), Head(log).works, Today)
          ELSE <<>>) \o Contributions(Tail(log))

\* the log without the journals whose query failed
Succeeded(log) == SelectSeq(log, LAMBDA q : q.ok)

QueriedInCatalogOrder ==
    /\ Len(queried) <= Len(WithIssn(1))
    /\ \A i \in 1..Len(queried) : queried[i].source = WithIssn(1)[i]

\* the state in which the harvest loop has just ended
HarvestEnded == pc = "lookup" /\ li = 1

HarvestOutcome ==
    HarvestEnded =>
        /\ Len(queried) = Len(WithIssn(1))
        /\ unified = Contributions(Succeeded(queried))
        /\ \A i \in 1..Len(queried) :
              ~queried[i].ok =>
                 \A k \in 1..Len(unified) :
                    unified[k].journal # Catalog[queried[i].source].name

\* a step in which a query fails
QueryFails ==
    /\ Len(queried') = Len(queried) + 1
    /\ ~queried'[Len(queried')].ok

\* the harvest goes on with the next catalog entry
GoesOn == pc' = "harvest" /\ si' = si + 1 /\ unified' = unified

\* what is left to do: the stage, and the entries left in the stage's loop
StepsLeft ==
    CASE pc = "harvest" -> 400 + (Len(sources) + 1 - si)
      [] pc = "lookup"  -> 300 + (Len(deduped) + 1 - li)
      [] pc = "efetch"  -> 200 + (Len(pmids_unique) + BatchSize - bi)
      [] pc = "write"   -> 100
      [] OTHER          -> 0

\* C9: whichever journals' Crossref queries fail, every journal that has an
\* ISSN is queried, in catalog order; a failed query is followed by the next
\* catalog entry, every step brings the run nearer to its end, and the run
\* ends with data.json written and status 0; when the harvest ends, and from
\* then on, a failed journal has contributed no item and the others what they
\* would contribute without the failed ones.
C9_FailuresDoNotAbort ==
    /\ [](QueriedInCatalogOrder /\ HarvestOutcome)
    /\ [](pc = "done" => Written /\ exit_status = 0)
    /\ [][QueryFails => GoesOn]_vars
    /\ [][pc # "harvest" => queried' = queried /\ unified' = unified]_vars
    /\ [][StepsLeft' < StepsLeft /\ StepsLeft' >= 0]_vars

\* the run has finished although the first and the last query failed, and
\* the journal between them has items in the dataset
C9_Witness ==
    /\ pc = "done"
    /\ Len(queried) = 3
    /\ ~queried[1].ok /\ queried[2].ok /\ ~queried[3].ok
    /\ Len(WrittenItems) >= 1

\* the DOIs of the items that have one, in list order
RECURSIVE DoisOf(_)
DoisOf(items) ==
    IF items = <<>> THEN <<>>
    ELSE (IF Head(items).doi # "" THEN <<Head(items).doi>> ELSE <<>>)
             \o DoisOf(Tail(items))

Found(entry) == entry.result \notin {NONE, "raised"}

DistinctKeys == { KeyOf(unified[k]) : k \in 1..Len(unified) } \ {""}

LookupAccounting ==
    /\ Len(lookup_log) <= PMID_LOOKUP_BUDGET
    /\ lookups = Len(lookup_log)
    /\ pc \in {"lookup", "efetch"} =>
          /\ Len(lookup_log) <= Len(DoisOf(deduped))
          /\ \A i \in 1..Len(lookup_log) :
                lookup_log[i].doi = DoisOf(deduped)[i]
    /\ pc = "efetch" =>
          Len(lookup_log) = Min2(PMID_LOOKUP_BUDGET, Len(DoisOf(deduped)))

LookupOutcome ==
    Written =>
        /\ Len(WrittenItems) = Min2(GLOBAL_MAX_ITEMS, Cardinality(DistinctKeys))
        /\ \A i \in 1..Len(WrittenItems) :
              LET it == WrittenItems[i]
                  hits == { n \in 1..Len(lookup_log) :
                              lookup_log[n].doi = it.doi /\ Found(lookup_log[n]) }
              IN  IF hits = {} \/ it.doi = ""
                  THEN "pmid" \notin DOMAIN it /\ "pubmed_url" \notin DOMAIN it
                  ELSE /\ "pmid" \in DOMAIN it /\ "pubmed_url" \in DOMAIN it
                       /\ \E n \in hits : it.pmid = lookup_log[n].result

\* C10: no more than PMID_LOOKUP_BUDGET lookups are requested; each attempt,
\* whatever its result, costs one unit; the requests follow the sorted order
\* of the items that have a DOI and go on after a failure until the budget
\* or the list is used up; an item whose lookup failed or was never made is
\* written without pmid and pubmed_url.
C10_LookupBudget == LookupAccounting /\ LookupOutcome

\* a finished run in which a lookup raised, a later one found a PMID, the
\* budget was used up and an item with a DOI was never looked up
C10_Witness ==
    /\ pc = "done"
    /\ lookups = PMID_LOOKUP_BUDGET
    /\ \E m, n \in 1..Len(lookup_log) :
          m < n /\ lookup_log[m].result = "raised" /\ Found(lookup_log[n])
    /\ \E i \in 1..Len(WrittenItems) :
          /\ WrittenItems[i].doi # ""
          /\ \A n \in 1..Len(lookup_log) : lookup_log[n].doi # WrittenItems[i].doi
          /\ "pmid" \notin DOMAIN WrittenItems[i]

(***************************************************************************)
(* The metrics builder: order of the sources, the single write.            *)
(***************************************************************************)
PrimarySource == "SCImago export"
FallbackSource == "Fallback GitHub CSV"

\* the sources contacted so far that failed, and the one that succeeded
FailedSources == warned
SucceededSources == [i \in 1..Len(metric_writes) |-> metric_writes[i].label]

PrimaryThenFallback ==
    /\ Len(contacted) <= 2
    /\ Len(contacted) >= 1 => contacted[1] = PrimarySource
    /\ Len(contacted) = 2 =>
          /\ contacted[2] = FallbackSource
          /\ Len(FailedSources) >= 1 /\ FailedSources[1] = PrimarySource

WrittenOnceOnSuccess ==
    metric_writes # <<>> =>
        /\ Len(metric_writes) = 1
        /\ SucceededSources[1] = contacted[Len(contacted)]
        /\ FailedSources = SubSeq(contacted, 1, Len(contacted) - 1)
        /\ LET built == build_from_text(metric_writes[1].text,
                                        WantedIssns(sources_json[1]))
           IN  /\ built.ok
               /\ metrics_file = <<MetricsOut(built, sources_json[1])>>
        /\ mpc = "exit" /\ mexit = 0

NoWriteWithoutSuccess ==
    FailedSources = contacted =>
        metric_writes = <<>> /\ metrics_file = metrics_file0

\* C11: the primary source is contacted first and the fallback only after
\* the primary has failed; when a source succeeds the metrics file is written
\* once, from the text that source returned, the exit status is 0 and from
\* then on no source is contacted and the file is not written again; as long
\* as every source contacted has failed the file is as it was at the start.
C11_PrimaryThenFallbackOneWrite ==
    /\ [](PrimaryThenFallback /\ WrittenOnceOnSuccess /\ NoWriteWithoutSuccess)
    /\ [][metric_writes # <<>> =>
            /\ contacted' = contacted
            /\ metric_writes' = metric_writes
            /\ metrics_file' = metrics_file]_vars

\* the primary failed, the fallback succeeded and replaced an old file
C11_Witness ==
    /\ mpc = "exit" /\ mexit = 0
    /\ contacted = <<PrimarySource, FallbackSource>>
    /\ FailedSources = <<PrimarySource>>
    /\ SucceededSources = <<FallbackSource>>
    /\ metrics_file0 = <<OldMetrics>>
    /\ metrics_file # metrics_file0

(***************************************************************************)
(* build_from_text: the year and the map it returns.                       *)
(***************************************************************************)
Returned == bpc = "done" /\ build_result[1].ok

ParsableYears ==
    { ParseYearCell(csv_rows[i].year) : i \in 1..Len(csv_rows) } \ {NoNumber}

\* the rows of the year y that have a parsable SJR value and list the ISSN
RowsListing(issn, y) ==
    { i \in 1..Len(csv_rows) :
        /\ ParseYearCell(csv_rows[i].year) = y
        /\ parse_float(csv_rows[i].sjr) # NoNumber
        /\ \E k \in 1..Len(csv_rows[i].issn) :
              normalize_issn(csv_rows[i].issn[k]) = issn }

WantedSet == { IssnA, IssnX }

\* v is the greatest of the SJR values of the rows in `among`; nan is no
\* greatest value beside a number
GreatestSjr(v, among) ==
    /\ \E i \in among : parse_float(csv_rows[i].sjr) = v
    /\ \A i \in among :
          LET w == parse_float(csv_rows[i].sjr)
          IN  IF v = NaN THEN w = NaN ELSE w = NaN \/ w <= v

YearAndMap(result) ==
    /\ result.year \in ParsableYears
    /\ \A y \in ParsableYears : y <= result.year
    /\ DOMAIN result.by_issn =
          { issn \in WantedSet : RowsListing(issn, result.year) # {} }
    /\ \A issn \in DOMAIN result.by_issn :
          GreatestSjr(result.by_issn[issn].sjr, RowsListing(issn, result.year))

\* C12: build_from_text returns the greatest parsable year of the rows, and
\* a map whose keys are the wanted ISSNs listed by a row of that year with a
\* parsable SJR value, each with the greatest SJR value of those rows; rows
\* of other years contribute nothing.
C12_LatestYearMaxSjr == Returned => YearAndMap(build_result[1])

\* the same, for texts in which no SJR cell is nan
NoNanCell ==
    \A i \in 1..Len(csv_rows) : parse_float(csv_rows[i].sjr) # NaN

C12_LatestYearMaxSjrOfNumbers ==
    Returned /\ NoNanCell => YearAndMap(build_result[1])

\* a wanted ISSN listed twice in the latest year and once, with a greater
\* value, in an earlier year
C12_Witness ==
    /\ Returned /\ NoNanCell
    /\ build_result[1].year = 2023
    /\ Cardinality(RowsListing(IssnX, 2023)) = 1
    /\ RowsListing(IssnX, 2022) # {}
    /\ Cardinality(RowsListing(IssnA, 2023)) = 2
    /\ build_result[1].by_issn[IssnA].sjr = 2250

(***************************************************************************)
(* data.json: order and number of the items.                               *)
(***************************************************************************)
Dated(it) == it.published # NoneStr

\* the place in the harvest at which the key of an item was first seen
FirstSeen(it) ==
    CHOOSE k \in 1..Len(unified) :
        /\ KeyOf(unified[k]) = KeyOf(it)
        /\ \A h \in 1..(k - 1) : KeyOf(unified[h]) # KeyOf(it)

SameSortKey(x, y) ==
    \/ ~Dated(x) /\ ~Dated(y)
    \/ Dated(x) /\ Dated(y) /\ ParseIso(x.published) = ParseIso(y.published)

\* x stands before y in the sorted list
StandsBefore(x, y) ==
    \/ Dated(x) /\ ~Dated(y)
    \/ Dated(x) /\ Dated(y) /\ DateLess(ParseIso(y.published), ParseIso(x.published))
    \/ SameSortKey(x, y) /\ FirstSeen(x) < FirstSeen(y)

\* the deduplicated records that are not written
LeftOut ==
    { k \in 1..Len(unified) :
        /\ KeyOf(unified[k]) # ""
        /\ \A h \in 1..(k - 1) : KeyOf(unified[h]) # KeyOf(unified[k])
        /\ \A i \in 1..Len(WrittenItems) :
              KeyOf(WrittenItems[i]) # KeyOf(unified[k]) }

\* C13: the items written to data.json are the first min(n, GLOBAL_MAX_ITEMS)
\* of the n deduplicated items in sorted order: dated items before undated
\* ones, later dates before earlier ones, items of equal date (or both
\* undated) in the order in which their keys were first seen; no item left
\* out stands before a written one, and there are no more than
\* GLOBAL_MAX_ITEMS items.
C13_SortedAndCapped ==
    Written =>
        /\ Len(WrittenItems) <= GLOBAL_MAX_ITEMS
        /\ Len(WrittenItems) = Min2(Cardinality(DistinctKeys), GLOBAL_MAX_ITEMS)
        /\ \A i, j \in 1..Len(WrittenItems) :
              i < j =>
                 /\ Dated(WrittenItems[j]) => Dated(WrittenItems[i])
                 /\ Dated(WrittenItems[j]) =>
                       DateLE(ParseIso(WrittenItems[j].published),
                              ParseIso(WrittenItems[i].published))
                 /\ SameSortKey(WrittenItems[i], WrittenItems[j]) =>
                       FirstSeen(WrittenItems[i]) < FirstSeen(WrittenItems[j])
        /\ \A k \in LeftOut : \A i \in 1..Len(WrittenItems) :
              StandsBefore(WrittenItems[i], unified[k])

\* four deduplicated items, three written: the one dated in the future first,
\* then two of the same date in harvest order; the undated one is left out
C13_Witness ==
    /\ Written
    /\ Cardinality(DistinctKeys) = 4
    /\ Len(WrittenItems) = 3
    /\ ParseIso(WrittenItems[1].published) = <<2025, 2, 3>>
    /\ WrittenItems[2].published = WrittenItems[3].published
    /\ KeyOf(WrittenItems[2]) = "10.1/a" /\ KeyOf(WrittenItems[3]) = "10.1/c"
    /\ \E k \in LeftOut : ~Dated(unified[k])

====
